---- MODULE Spec2Model ----
(***************************************************************************)
(* rules_python: piptool.py (requirements.bzl generator) and whl.py (Wheel *)
(* descriptor).  Strings are sequences of one-character strings (a few     *)
(* multi-character tokens stand for literal fragments that no operation    *)
(* looks into), so that split, replace, lower and the requirement parser   *)
(* are computed character by character, as the code computes them.         *)
(***************************************************************************)
EXTENDS Integers, Sequences, FiniteSets, TLC

VARIABLES wheels, pc, wheel_to_extras, py_library, whl_filegroup, rules,
          output, lookup, obj, opens, metaCalls, pureCalls, last

vars == <<wheels, pc, wheel_to_extras, py_library, whl_filegroup, rules,
          output, lookup, obj, opens, metaCalls, pureCalls, last>>

mainVars == <<wheels, pc, wheel_to_extras, py_library, whl_filegroup, rules,
              output, lookup>>

wheelVars == <<obj, opens, metaCalls, pureCalls, last>>

\* Bounds of the model.
MaxWheels == 3
RecursionLimit == 12
MaxCalls == 3

\* Python's None (is_possible tests it with `not extra`).
None == <<>>

-----------------------------------------------------------------------------
\* String primitives.

Range(s) == {s[i] : i \in DOMAIN s}

\* str.lower(), on the letters the model uses.
LowerChar(c) ==
    CASE c = "A" -> "a"
      [] c = "B" -> "b"
      [] c = "X" -> "x"
      [] c = "Z" -> "z"
      [] OTHER -> c

Lower(s) == [i \in DOMAIN s |-> LowerChar(s[i])]

\* str.replace(from, to) for one-character from/to, and re.sub of a character
\* class by one character.
ReplaceChars(s, from, to) == [i \in DOMAIN s |-> IF s[i] \in from THEN to ELSE s[i]]

RECURSIVE SplitFrom(_, _, _, _)
SplitFrom(s, sep, i, cur) ==
    IF i > Len(s) THEN <<cur>>
    ELSE IF s[i] = sep THEN <<cur>> \o SplitFrom(s, sep, i + 1, <<>>)
    ELSE SplitFrom(s, sep, i + 1, Append(cur, s[i]))

\* str.split(sep)
Split(s, sep) == SplitFrom(s, sep, 1, <<>>)

\* The prefix of s before its first character in stops: re.split(...)[0].
RECURSIVE TakeUntil(_, _)
TakeUntil(s, stops) ==
    IF s = <<>> \/ Head(s) \in stops THEN <<>>
    ELSE <<Head(s)>> \o TakeUntil(Tail(s), stops)

RECURSIVE DropUntil(_, _)
DropUntil(s, stops) ==
    IF s = <<>> THEN <<>>
    ELSE IF Head(s) \in stops THEN Tail(s)
    ELSE DropUntil(Tail(s), stops)

-----------------------------------------------------------------------------
\* whl.py: class Wheel.  A wheel is its file name (basename), the metadata
\* document its archive holds and the form that document has.

\* os.path.basename(self.path()): the model keeps the file name only.
basename(w) == w.basename

distribution(w) == Split(basename(w), "-")[1]

version(w) == Split(basename(w), "-")[2]

repository_name(w) ==
    ReplaceChars(<<"pypi__">> \o distribution(w) \o <<"_">> \o version(w),
                 {"-", "."}, "_")

\* What one call of metadata() returns: metadata.json as it is, or, from a
\* plain METADATA file, the name alone (the .get defaults of extras() and
\* dependencies() then give empty lists).
metadata(w) ==
    IF w.form = "json" THEN w.meta
    ELSE [name |-> w.meta.name, extras |-> <<>>, run_requires |-> <<>>]

\* The exception one call of metadata() ends in, "ok" when it returns:
\* zipfile.ZipFile raises BadZipFile on a file that is no archive; _dist_info
\* then reads version(), parts[1] of a file name that may have no '-'
\* (IndexError); an archive with neither metadata.json nor METADATA raises
\* the KeyError of the second whl.open.
metadata_raises(w) ==
    IF w.form = "notzip" THEN "BadZipFile"
    ELSE IF Len(Split(basename(w), "-")) < 2 THEN "IndexError"
    ELSE IF w.form = "absent" THEN "KeyError"
    ELSE "ok"

\* A metadata() that kept what it read: the archive is opened by the first
\* call only.
metadata_opens_cached(n) == IF n = 0 THEN 1 ELSE n

\* The archive opens after one more call of metadata(), n before it: every
\* call runs zipfile.ZipFile(self.path()), and the object keeps nothing.
metadata_opens(n) == n + 1

name(w) == metadata(w).name

extras(w) == metadata(w).extras

\* pkg_resources.evaluate_marker in the environment of the run: a linux
\* interpreter, on which only the win32 marker is false.
evaluate_marker(marker) == marker # <<"sys_platform=='win32'">>

VersionDelims == {" ", ">", "<", "=", "(", ")"}

RECURSIVE StripEntries(_)
StripEntries(requires) ==
    IF requires = <<>> THEN <<>>
    ELSE <<TakeUntil(Head(requires), VersionDelims)>> \o StripEntries(Tail(requires))

RECURSIVE DependenciesOf(_, _)
DependenciesOf(run_requires, extra) ==
    IF run_requires = <<>> THEN <<>>
    ELSE LET requirement == Head(run_requires)
             rest == DependenciesOf(Tail(run_requires), extra)
         IN IF requirement.extra # extra THEN rest
            ELSE IF requirement.environment # None
                    /\ ~evaluate_marker(requirement.environment) THEN rest
            ELSE StripEntries(requirement.requires) \o rest

\* Wheel.dependencies(extra), iterated to its end.
dependencies(w, extra) == DependenciesOf(metadata(w).run_requires, extra)

-----------------------------------------------------------------------------
\* pkg_resources.Requirement.parse, as piptool.is_possible reads it:
\* project_name is safe_name of the name (runs of characters outside
\* [A-Za-z0-9.] become one '-'), extras are safe_extra of each extra
\* (lower-cased).

NameUnsafe == {"-", "_"}

RECURSIVE safe_name(_)
safe_name(s) ==
    IF s = <<>> THEN <<>>
    ELSE IF Head(s) \in NameUnsafe
         THEN IF Len(s) > 1 /\ s[2] \in NameUnsafe THEN safe_name(Tail(s))
              ELSE <<"-">> \o safe_name(Tail(s))
    ELSE <<Head(s)>> \o safe_name(Tail(s))

safe_extra(s) == Lower(s)

ParseRequirement(s) ==
    LET nm == TakeUntil(s, {"["})
        inside == TakeUntil(DropUntil(s, {"["}), {"]"})
        listed == IF inside = <<>> THEN <<>> ELSE Split(inside, ",")
    IN [project_name |-> safe_name(nm),
        extras |-> [i \in DOMAIN listed |-> safe_extra(listed[i])]]

-----------------------------------------------------------------------------
\* piptool.py: _make_wheel_to_extras.

\* {wheel.distribution(): wheel for wheel in wheels}: a later wheel of the
\* same distribution replaces an earlier one.
pypi_name_to_wheel(ws) ==
    LET names == {distribution(ws[i]) : i \in DOMAIN ws}
        lastOf(n) == CHOOSE i \in DOMAIN ws :
                        /\ distribution(ws[i]) = n
                        /\ \A j \in DOMAIN ws : distribution(ws[j]) = n => j <= i
    IN [n \in names |-> ws[lastOf(n)]]

\* is_possible(pypi_name, extra) over the mapping m, at call depth `depth`:
\* "True", "False", or the exception that leaves it: "RecursionError" once
\* the interpreter's recursion limit is passed, or what metadata() raises
\* when wheel.dependencies(extra) reads the wheel (the exception reaches the
\* caller of _make_wheel_to_extras: nothing catches it).
RECURSIVE is_possible(_, _, _, _)
RECURSIVE deps_possible(_, _, _)
RECURSIVE extras_possible(_, _, _, _)

is_possible(m, pypi_name, extra, depth) ==
    IF depth > RecursionLimit THEN "RecursionError"
    ELSE LET nm == ReplaceChars(pypi_name, {"-"}, "_")
         IN IF nm \notin DOMAIN m THEN "False"
            ELSE IF extra = None THEN "True"
            ELSE IF metadata_raises(m[nm]) # "ok" THEN metadata_raises(m[nm])
            ELSE deps_possible(m, dependencies(m[nm], extra), depth)

extras_possible(m, project_name, req_extras, depth) ==
    IF req_extras = <<>> THEN "True"
    ELSE LET r == is_possible(m, project_name, Head(req_extras), depth + 1)
         IN IF r # "True" THEN r
            ELSE extras_possible(m, project_name, Tail(req_extras), depth)

deps_possible(m, deps, depth) ==
    IF deps = <<>> THEN "True"
    ELSE LET req == ParseRequirement(Head(deps))
             r == is_possible(m, req.project_name, None, depth + 1)
         IN IF r # "True" THEN r
            ELSE LET e == extras_possible(m, req.project_name, req.extras, depth)
                 IN IF e # "True" THEN e
                    ELSE deps_possible(m, Tail(deps), depth)

\* The answer the comprehension of lines 247-253 gets for wheel i, extra j.
Answer(ws, i, j) ==
    is_possible(pypi_name_to_wheel(ws), distribution(ws[i]), extras(ws[i])[j], 1)

\* The exception that leaves the comprehension of lines 247-253, "ok" when
\* it returns: for the wheels in their order, what wheel.extras() raises,
\* then what the calls of is_possible raise for its extras in their order.
RECURSIVE Raised(_, _, _)
Raised(ws, i, j) ==
    IF i > Len(ws) THEN "ok"
    ELSE IF metadata_raises(ws[i]) # "ok" THEN metadata_raises(ws[i])
    ELSE IF j > Len(extras(ws[i])) THEN Raised(ws, i + 1, 1)
    ELSE IF Answer(ws, i, j) \notin {"True", "False"} THEN Answer(ws, i, j)
    ELSE Raised(ws, i, j + 1)

Raises(ws) == Raised(ws, 1, 1) # "ok"

RECURSIVE PossibleFrom(_, _, _)
PossibleFrom(ws, i, j) ==
    IF j > Len(extras(ws[i])) THEN <<>>
    ELSE (IF Answer(ws, i, j) = "True" THEN <<extras(ws[i])[j]>> ELSE <<>>)
         \o PossibleFrom(ws, i, j + 1)

\* The returned dict, keyed by the wheel's place in the list.
make_wheel_to_extras(ws) == [i \in DOMAIN ws |-> PossibleFrom(ws, i, 1)]

-----------------------------------------------------------------------------
\* piptool.py: _make_bzl_file_content and the generated requirements.bzl.

\* args.name
reqs_repo_name == <<"r">>

make_wheel_name(namespace, w) == namespace \o <<"_">> \o repository_name(w)

\* One wheel's entries of a table: the unconditional one, then one for every
\* extra of wheel_to_extras.get(wheel, []).  `target` is "pkg" or "whl",
\* `suffix` is "" or "_whl".
WheelEntries(w, exs, target, suffix) ==
    <<[key |-> Lower(distribution(w)),
       value |-> <<"@">> \o make_wheel_name(reqs_repo_name, w)
                  \o <<"//:", target>>]>>
    \o [j \in DOMAIN exs |->
          [key |-> Lower(distribution(w)) \o <<"[">> \o Lower(exs[j]) \o <<"]">>,
           value |-> <<"@">> \o make_wheel_name(reqs_repo_name, w)
                      \o <<"//:">> \o Lower(exs[j]) \o suffix]]

RECURSIVE TableFrom(_, _, _, _, _)
TableFrom(ws, w2e, i, target, suffix) ==
    IF i > Len(ws) THEN <<>>
    ELSE WheelEntries(ws[i], w2e[i], target, suffix)
         \o TableFrom(ws, w2e, i + 1, target, suffix)

pypi_name_to_py_library(ws, w2e) == TableFrom(ws, w2e, 1, "pkg", <<>>)

pypi_name_to_whl_filegroup(ws, w2e) == TableFrom(ws, w2e, 1, "whl", <<"_whl">>)

merged_whl_repo_name == reqs_repo_name \o <<"_merged">>

\* _make_whl_library_rule: the rule's name, its whls and its extras.
make_whl_library_rule(whl_repo_name, ws, exs) ==
    [name |-> whl_repo_name,
     whls |-> [i \in DOMAIN ws |-> basename(ws[i])],
     extras |-> exs]

whl_library_rules(ws, w2e) ==
    [i \in DOMAIN ws |->
        make_whl_library_rule(make_wheel_name(reqs_repo_name, ws[i]),
                              <<ws[i]>>, w2e[i])]

merged_whl_library_rule(ws) ==
    make_whl_library_rule(merged_whl_repo_name, ws, <<>>)

\* _BZL_TEMPLATE: _make_name_key, and the lookup both generated functions do
\* in their table.  A dict literal keeps, for a key written twice, the entry
\* written last.
make_name_key(nm) == Lower(ReplaceChars(nm, {"-"}, "_"))

Keys(table) == {table[i].key : i \in DOMAIN table}

DictGet(table, k) ==
    LET i == CHOOSE i \in DOMAIN table :
                 /\ table[i].key = k
                 /\ \A j \in DOMAIN table : table[j].key = k => j <= i
    IN table[i].value

Fail == <<"fail">>

TableLookup(table, nm) ==
    LET name_key == make_name_key(nm)
    IN IF name_key \notin Keys(table) THEN Fail ELSE DictGet(table, name_key)

-----------------------------------------------------------------------------
\* The wheels a run can find in its directory.

Req(extra, environment, requires) ==
    [extra |-> extra, environment |-> environment, requires |-> requires]

Whl(dist, ver, tag, form, nm, exs, run_requires) ==
    [basename |-> dist \o <<"-">> \o ver
                  \o <<"-", tag, "-", "none", "-", "any", ".whl">>,
     form |-> form,
     meta |-> [name |-> nm, extras |-> exs, run_requires |-> run_requires]]

PyMarker == <<"python_version>='2.7'">>
Win32Marker == <<"sys_platform=='win32'">>

\* a-1-py2: extra y requires b[z]
W_a == Whl(<<"a">>, <<"1">>, "py2", "json", <<"a">>, << <<"y">> >>,
           << Req(<<"y">>, None, << <<"b", "[", "z", "]">> >>) >>)

\* b-1-py2: extra z requires a[y] (>=1), under a marker that holds
W_b == Whl(<<"b">>, <<"1">>, "py2", "json", <<"b">>, << <<"z">> >>,
           << Req(<<"z">>, PyMarker,
                  << <<"a", "[", "y", "]", " ", "(", ">", "=", "1", ")">> >>) >>)

\* A-1-py2: requires b; extra x requires c
W_A == Whl(<<"A">>, <<"1">>, "py2", "json", <<"A">>, << <<"x">> >>,
           << Req(None, None, << <<"b">> >>),
              Req(<<"x">>, None, << <<"c">> >>) >>)

\* a-1-py3: extras y and x, which require nothing
W_a3 == Whl(<<"a">>, <<"1">>, "py3", "json", <<"a">>, << <<"y">>, <<"x">> >>, <<>>)

\* b-2-py2: extra Z requires c
W_bZ == Whl(<<"b">>, <<"2">>, "py2", "json", <<"b">>, << <<"Z">> >>,
            << Req(<<"Z">>, None, << <<"c">> >>) >>)

\* d-1-py2: extra x requires b[Z], extra w requires a-b
W_d == Whl(<<"d">>, <<"1">>, "py2", "json", <<"d">>, << <<"x">>, <<"w">> >>,
           << Req(<<"x">>, None, << <<"b", "[", "Z", "]">> >>),
              Req(<<"w">>, None, << <<"a", "-", "b">> >>) >>)

\* a_b-1.0-py2: extra x-y requires c on win32 only
W_ab == Whl(<<"a", "_", "b">>, <<"1", ".", "0">>, "py2", "json",
            <<"a", "-", "b">>, << <<"x", "-", "y">> >>,
            << Req(<<"x", "-", "y">>, Win32Marker, << <<"c">> >>) >>)

\* c-1-py2: a plain METADATA file, which gives the name only
W_c == Whl(<<"c">>, <<"1">>, "py2", "METADATA", <<"c">>, << <<"t">> >>, <<>>)

Catalogue == {W_a, W_b, W_A, W_a3, W_bZ, W_d, W_ab, W_c}

\* Files that end in .whl and cannot be read as wheels.
\* b-3-py2: not a zip archive
W_b3 == [Whl(<<"b">>, <<"3">>, "py2", "json", <<"b">>, <<>>, <<>>)
            EXCEPT !.form = "notzip"]

\* a-2-py2: an archive without metadata.json and without METADATA
W_a2 == [Whl(<<"a">>, <<"2">>, "py2", "json", <<"a">>, <<>>, <<>>)
            EXCEPT !.form = "absent"]

\* e.whl: an archive whose file name has no '-'
W_e == [Whl(<<"e">>, <<"1">>, "py2", "json", <<"e">>, <<>>, <<>>)
           EXCEPT !.basename = <<"e", ".whl">>]

Unreadable == {W_b3, W_a2, W_e}

\* Every file list_whl_files can yield.
Directory == Catalogue \cup Unreadable

WheelLists ==
    UNION {{ws \in [1..n -> Directory] :
               \A i, j \in 1..n : i # j => ws[i] # ws[j]} : n \in 0..MaxWheels}

\* The names a BUILD file asks requirement() and pypi_whl_requirement() for:
\* a wheel's own capabilities, as written and lower-cased, and the
\* dependencies whl.py writes into requirement("...").
CapabilityName(w, extra) ==
    IF extra = None THEN distribution(w)
    ELSE distribution(w) \o <<"[">> \o extra \o <<"]">>

LookupNames(ws) ==
    LET caps == {CapabilityName(ws[i], None) : i \in DOMAIN ws}
                \cup UNION {{CapabilityName(ws[i], extras(ws[i])[j]) :
                                j \in DOMAIN extras(ws[i])} : i \in DOMAIN ws}
        deps == UNION {UNION {Range(dependencies(ws[i], e)) :
                                e \in {None} \cup Range(extras(ws[i]))} :
                          i \in DOMAIN ws}
    IN caps \cup {Lower(c) : c \in caps} \cup deps

-----------------------------------------------------------------------------
\* piptool.main, and the lookups made of the file it wrote.

MainInit ==
    /\ wheels \in WheelLists
    /\ pc = "start"
    /\ wheel_to_extras = <<>>
    /\ py_library = <<>>
    /\ whl_filegroup = <<>>
    /\ rules = <<>>
    /\ output = <<>>
    /\ lookup = <<>>

WheelIdle ==
    /\ obj = W_c
    /\ opens = 0
    /\ metaCalls = 0
    /\ pureCalls = 0
    /\ last = <<>>

Init == MainInit /\ WheelIdle

\* pip wheel exits non-zero: sys.exit(1).
PipFails ==
    /\ pc = "start"
    /\ pc' = "exit"
    /\ UNCHANGED <<wheels, wheel_to_extras, py_library, whl_filegroup, rules,
                   output, lookup>>
    /\ UNCHANGED wheelVars

\* pip wheel succeeded; the .whl files of the directory are listed.
PipWheel ==
    /\ pc = "start"
    /\ pc' = "wheels"
    /\ UNCHANGED <<wheels, wheel_to_extras, py_library, whl_filegroup, rules,
                   output, lookup>>
    /\ UNCHANGED wheelVars

\* _make_wheel_to_extras returns its dict, or an exception leaves it (and
\* _make_bzl_file_content, and main).
MakeWheelToExtras ==
    /\ pc = "wheels"
    /\ IF Raises(wheels)
       THEN pc' = Raised(wheels, 1, 1) /\ UNCHANGED wheel_to_extras
       ELSE pc' = "resolved" /\ wheel_to_extras' = make_wheel_to_extras(wheels)
    /\ UNCHANGED <<wheels, py_library, whl_filegroup, rules, output, lookup>>
    /\ UNCHANGED wheelVars

\* The rest of _make_bzl_file_content.  With no wheel, merged_whl_library_rule
\* is read at line 200 and was never assigned.
MakeBzlFileContent ==
    /\ pc = "resolved"
    /\ IF wheels # <<>>
       THEN /\ py_library' = pypi_name_to_py_library(wheels, wheel_to_extras)
            /\ whl_filegroup' = pypi_name_to_whl_filegroup(wheels, wheel_to_extras)
            /\ rules' = <<[whl_library_rules |-> whl_library_rules(wheels, wheel_to_extras),
                           merged_whl_library_rule |-> merged_whl_library_rule(wheels)]>>
            /\ pc' = "content"
       ELSE /\ pc' = "UnboundLocalError"
            /\ UNCHANGED <<py_library, whl_filegroup, rules>>
    /\ UNCHANGED <<wheels, wheel_to_extras, output, lookup>>
    /\ UNCHANGED wheelVars

\* A main that opens args.output before it assembles the content.
WriteOutputFirst ==
    /\ pc = "wheels"
    /\ output = <<>>
    /\ output' = <<[requirements |-> <<>>, whl_requirements |-> <<>>,
                    pip_install |-> <<>>]>>
    /\ UNCHANGED <<wheels, pc, wheel_to_extras, py_library, whl_filegroup, rules, lookup>>
    /\ UNCHANGED wheelVars

\* open(args.output, 'w') and the write of bzl_file_content.
WriteOutput ==
    /\ pc = "content"
    /\ output' = <<[requirements |-> py_library,
                    whl_requirements |-> whl_filegroup,
                    pip_install |-> rules[1]]>>
    /\ pc' = "written"
    /\ UNCHANGED <<wheels, wheel_to_extras, py_library, whl_filegroup, rules, lookup>>
    /\ UNCHANGED wheelVars

\* requirement(name) of the written file.
Requirement ==
    /\ pc = "written"
    /\ \E nm \in LookupNames(wheels) :
          lookup' = <<[name |-> nm, view |-> "pkg",
                       result |-> TableLookup(output[1].requirements, nm)]>>
    /\ UNCHANGED <<wheels, pc, wheel_to_extras, py_library, whl_filegroup, rules, output>>
    /\ UNCHANGED wheelVars

\* pypi_whl_requirement(name) of the written file.
PypiWhlRequirement ==
    /\ pc = "written"
    /\ \E nm \in LookupNames(wheels) :
          lookup' = <<[name |-> nm, view |-> "whl",
                       result |-> TableLookup(output[1].whl_requirements, nm)]>>
    /\ UNCHANGED <<wheels, pc, wheel_to_extras, py_library, whl_filegroup, rules, output>>
    /\ UNCHANGED wheelVars

Next ==
    \/ PipFails
    \/ PipWheel
    \/ MakeWheelToExtras
    \/ MakeBzlFileContent
    \/ WriteOutput
    \/ Requirement
    \/ PypiWhlRequirement

Spec == Init /\ [][Next]_vars

-----------------------------------------------------------------------------
\* Vocabulary of the properties.

\* The resolver has read every wheel and is over, by a return or by the
\* recursion limit.
ResolverRan == pc \in {"RecursionError", "resolved", "content", "written",
                       "UnboundLocalError"}

\* _make_wheel_to_extras returned its dict.
Resolved == pc \in {"resolved", "content", "written", "UnboundLocalError"}

\* _make_bzl_file_content built both tables.
TablesBuilt == pc \in {"content", "written"}

WorkingSet == pypi_name_to_wheel(wheels)

\* The identity of a package name: case-folded, '-' read as '_'.
Normalize(nm) == Lower(ReplaceChars(nm, {"-"}, "_"))

\* A dependency as the metadata writes it: its distribution and the extras
\* it asks of it.
RequestedName(d) == TakeUntil(d, {"["})

RequestedExtras(d) ==
    LET inside == TakeUntil(DropUntil(d, {"["}), {"]"})
    IN IF inside = <<>> THEN {} ELSE Range(Split(inside, ","))

\* The requires-graph over the (distribution, extra) pairs of the working
\* set: the calls is_possible makes for the extras a dependency names.
Successors(node) ==
    LET deps == Range(dependencies(WorkingSet[node[1]], node[2]))
        calls(d) == LET req == ParseRequirement(d)
                    IN {<<ReplaceChars(req.project_name, {"-"}, "_"), e>> :
                           e \in Range(req.extras)}
    IN {c \in UNION {calls(d) : d \in deps} : c[1] \in DOMAIN WorkingSet}

RECURSIVE ReachableFrom(_)
ReachableFrom(nodes) ==
    LET more == nodes \cup UNION {Successors(x) : x \in nodes}
    IN IF more = nodes THEN nodes ELSE ReachableFrom(more)

\* Extra e of the working set's wheel n depends, directly or through other
\* packages' extras, on itself.
SelfDependent(n, e) == <<n, e>> \in ReachableFrom(Successors(<<n, e>>))

\* The wheels of the list that the working-set mapping holds.
Held == {i \in DOMAIN wheels : WorkingSet[distribution(wheels[i])] = wheels[i]}

-----------------------------------------------------------------------------
\* C1: every call is_possible(distribution, extra) that
\* _make_wheel_to_extras makes returns, also for extras whose requirements
\* cycle; the resolver never ends in unbounded recursion.
C1_EveryCallReturns == pc # "RecursionError"

\* C2: once the resolver has run, a self-dependent extra of a working-set
\* wheel has the answer false: the resolver returned and the extra is not in
\* that wheel's list.
C2_SelfDependentIsFalse ==
    ResolverRan =>
        \A i \in Held : \A j \in DOMAIN extras(wheels[i]) :
            SelfDependent(distribution(wheels[i]), extras(wheels[i])[j])
                => /\ Resolved
                   /\ extras(wheels[i])[j] \notin Range(wheel_to_extras[i])

\* C3: an extra E is in the list of a working-set wheel P only if every
\* dependency of P under E has its distribution in the working set and every
\* extra that dependency asks of that distribution is itself possible.
C3_ClosedWorldSound ==
    Resolved =>
        \A i \in Held : \A E \in Range(wheel_to_extras[i]) :
            \A d \in Range(dependencies(wheels[i], E)) :
                /\ \E n \in DOMAIN WorkingSet : Normalize(n) = Normalize(RequestedName(d))
                /\ \A e \in RequestedExtras(d) :
                      is_possible(WorkingSet, RequestedName(d), e, 1) = "True"

\* C4: is_possible(name, None) is true whenever the working set holds a wheel
\* whose distribution equals name up to letter case and '-' / '_'.
C4_LookupIgnoresCase ==
    ResolverRan =>
        \A i \in DOMAIN wheels :
            \A e \in Range(extras(wheels[i])) :
                \A d \in Range(dependencies(wheels[i], e)) :
                    LET nm == ParseRequirement(d).project_name
                    IN (\E n \in DOMAIN WorkingSet : Normalize(n) = Normalize(nm))
                          => is_possible(WorkingSet, nm, None, 1) = "True"

\* The key of capability (w, extra) in both tables.
CapabilityKey(w, extra) ==
    IF extra = None THEN Lower(distribution(w))
    ELSE Lower(distribution(w)) \o <<"[">> \o Lower(extra) \o <<"]">>

\* C5: both tables have an entry for every wheel and for every possible extra
\* of it, and none for a declared extra that is not possible.
C5_TablesComplete ==
    TablesBuilt =>
        \A i \in DOMAIN wheels :
            /\ CapabilityKey(wheels[i], None) \in Keys(py_library) \cap Keys(whl_filegroup)
            /\ \A E \in Range(extras(wheels[i])) :
                  IF E \in Range(wheel_to_extras[i])
                  THEN CapabilityKey(wheels[i], E) \in Keys(py_library) \cap Keys(whl_filegroup)
                  ELSE CapabilityKey(wheels[i], E) \notin Keys(py_library) \cup Keys(whl_filegroup)

\* C6: no two entries of a table share a key.
C6_KeysUnique ==
    TablesBuilt =>
        \A table \in {py_library, whl_filegroup} :
            \A p, q \in DOMAIN table : p # q => table[p].key # table[q].key

\* The target the tables give capability (w, extra) in a view.
CapabilityTarget(w, extra, view) ==
    <<"@">> \o make_wheel_name(reqs_repo_name, w) \o <<"//:">>
    \o (IF extra = None THEN <<view>>
        ELSE Lower(extra) \o (IF view = "whl" THEN <<"_whl">> ELSE <<>>))

\* C7: looking up the name "p[e]" of a possible extra (or "p") finds the
\* entry written for it and returns that wheel's target.
C7_LookupRoundTrip ==
    lookup # <<>> =>
        \A i \in DOMAIN wheels : \A E \in {None} \cup Range(wheel_to_extras[i]) :
            lookup[1].name = CapabilityKey(wheels[i], E)
                => lookup[1].result = CapabilityTarget(wheels[i], E, lookup[1].view)

\* Two wheels of the list have one repository identifier.
DuplicateRepositoryIdentifier ==
    \E i, j \in DOMAIN wheels :
        /\ i # j
        /\ Len(Split(basename(wheels[i]), "-")) >= 2
        /\ Len(Split(basename(wheels[j]), "-")) >= 2
        /\ repository_name(wheels[i]) = repository_name(wheels[j])

\* C8: with two wheels of one repository identifier the run aborts: no
\* content is assembled and nothing is written.
C8_DuplicateIdentifierAborts ==
    DuplicateRepositoryIdentifier => pc \notin {"content", "written"} /\ output = <<>>

\* The wheel list without its k-th wheel.
Without(ws, k) == [i \in 1..(Len(ws) - 1) |-> IF i < k THEN ws[i] ELSE ws[i + 1]]

Queries ==
    {<<distribution(w), e>> : w \in Catalogue, e \in {None} \cup UNION {Range(extras(v)) : v \in Catalogue}}

\* C9: an answer that is false over the wheels is false over the wheels with
\* any one of them removed.
C9_RemovalMonotone ==
    ResolverRan =>
        \A k \in DOMAIN wheels : \A q \in Queries :
            is_possible(pypi_name_to_wheel(wheels), q[1], q[2], 1) = "False"
                => is_possible(pypi_name_to_wheel(Without(wheels, k)), q[1], q[2], 1) = "False"

\* The run ended without reaching the end of main.
Aborted == pc \in {"exit", "BadZipFile", "IndexError", "KeyError",
                   "RecursionError", "UnboundLocalError"}

\* C11: the output file is written only when the installer succeeded, the
\* metadata of every wheel was read, and the resolver and the assembly of the
\* declarations completed; a run that aborts leaves no output file.
C11_AllOrNothing ==
    /\ output # <<>> =>
          /\ pc = "written"
          /\ \A i \in DOMAIN wheels : metadata_raises(wheels[i]) = "ok"
          /\ wheel_to_extras = make_wheel_to_extras(wheels)
          /\ output[1] = [requirements |-> py_library,
                          whl_requirements |-> whl_filegroup,
                          pip_install |-> rules[1]]
    /\ Aborted => output = <<>>

\* A run that read one wheel and aborted on the missing metadata of another.
C11_AbortedOnSecondWheel ==
    /\ pc = "KeyError"
    /\ Len(wheels) >= 2
    /\ metadata_raises(wheels[1]) = "ok"
    /\ output = <<>>

\* C12: _make_bzl_file_content completes for every list of wheels the
\* resolver returned for, the empty list too, and yields one registration per
\* wheel and one merged registration of all the wheels.
C12_ContentForEveryList ==
    /\ pc # "UnboundLocalError"
    /\ TablesBuilt =>
          /\ Len(rules[1].whl_library_rules) = Len(wheels)
          /\ \A i \in DOMAIN wheels :
                rules[1].whl_library_rules[i].whls = <<basename(wheels[i])>>
          /\ rules[1].merged_whl_library_rule.whls
                = [i \in DOMAIN wheels |-> basename(wheels[i])]

-----------------------------------------------------------------------------
\* One Wheel object and the calls a client makes on it (whl.py).

MainIdle ==
    /\ wheels = <<>>
    /\ pc = "idle"
    /\ wheel_to_extras = <<>>
    /\ py_library = <<>>
    /\ whl_filegroup = <<>>
    /\ rules = <<>>
    /\ output = <<>>
    /\ lookup = <<>>

WheelInit ==
    /\ obj \in Catalogue
    /\ opens = 0
    /\ metaCalls = 0
    /\ pureCalls = 0
    /\ last = <<>>

MoreCalls == metaCalls + pureCalls < MaxCalls

\* wheel.metadata()
CallMetadata ==
    /\ MoreCalls
    /\ opens' = metadata_opens(opens)
    /\ metaCalls' = metaCalls + 1
    /\ last' = <<"metadata", metadata(obj)>>
    /\ UNCHANGED <<obj, pureCalls>>
    /\ UNCHANGED mainVars

\* wheel.name(): self.metadata().get('name')
CallName ==
    /\ MoreCalls
    /\ opens' = metadata_opens(opens)
    /\ metaCalls' = metaCalls + 1
    /\ last' = <<"name", name(obj)>>
    /\ UNCHANGED <<obj, pureCalls>>
    /\ UNCHANGED mainVars

\* wheel.dependencies(extra), iterated: its first step runs self.metadata().
CallDependencies ==
    /\ MoreCalls
    /\ \E extra \in {None} \cup Range(obj.meta.extras) :
          last' = <<"dependencies", extra, dependencies(obj, extra)>>
    /\ opens' = metadata_opens(opens)
    /\ metaCalls' = metaCalls + 1
    /\ UNCHANGED <<obj, pureCalls>>
    /\ UNCHANGED mainVars

\* wheel.extras(): self.metadata().get('extras', [])
CallExtras ==
    /\ MoreCalls
    /\ opens' = metadata_opens(opens)
    /\ metaCalls' = metaCalls + 1
    /\ last' = <<"extras", extras(obj)>>
    /\ UNCHANGED <<obj, pureCalls>>
    /\ UNCHANGED mainVars

\* wheel.distribution()
CallDistribution ==
    /\ MoreCalls
    /\ pureCalls' = pureCalls + 1
    /\ last' = <<"distribution", distribution(obj)>>
    /\ UNCHANGED <<obj, opens, metaCalls>>
    /\ UNCHANGED mainVars

\* wheel.version()
CallVersion ==
    /\ MoreCalls
    /\ pureCalls' = pureCalls + 1
    /\ last' = <<"version", version(obj)>>
    /\ UNCHANGED <<obj, opens, metaCalls>>
    /\ UNCHANGED mainVars

\* wheel.repository_name()
CallRepositoryName ==
    /\ MoreCalls
    /\ pureCalls' = pureCalls + 1
    /\ last' = <<"repository_name", repository_name(obj)>>
    /\ UNCHANGED <<obj, opens, metaCalls>>
    /\ UNCHANGED mainVars

WheelNext ==
    \/ CallMetadata
    \/ CallName
    \/ CallDependencies
    \/ CallExtras
    \/ CallDistribution
    \/ CallVersion
    \/ CallRepositoryName

WheelSpecInit == MainIdle /\ WheelInit

WheelSpec == WheelSpecInit /\ [][WheelNext]_vars

\* C10, as the claim states it: over any sequence of calls on one Wheel the
\* archive is opened at most once.
C10_OpenedAtMostOnce == opens <= 1

\* C10, amended: every call of metadata(), name(), extras() and every
\* iteration of dependencies() opens the archive once more, nothing being
\* kept between calls; distribution(), version() and repository_name() open
\* nothing.
C10_OpenedOncePerCall == opens = metaCalls

\* The archive has been opened twice for two calls that read the metadata,
\* with a call of a file-name method among the calls.
C10_OpenedTwice == opens = 2 /\ metaCalls = 2 /\ pureCalls = 1

====
